---- MODULE Spec2Model ----
\* Billing and resource-consistency engine of the clinic back office:
\* medical-card fees, stationary rooms, nurse/doctor tasks and incomes,
\* payments and the per-day payment ledger (src/clinic).
EXTENDS Integers, Sequences, FiniteSets, TLC

\* ---------------------------------------------------------------------
\* Bounds of the model
\* ---------------------------------------------------------------------
NumServices == 2
NumMedicines == 1
MaxPrice == 4
MaxSel == 2
MaxAmount == 1
MaxLedger == 3
MaxTime == 1
NumTasks == 2
NumDoctorTasks == 2

\* SQL NULL / Python None for dates and amounts, NULL for foreign keys,
\* and "field not present in the request" for inputs.
None == 0 - 1
Absent == 0 - 2
Null == 0

\* One card (of pet 1), a second pet that has no card, two rooms.
Cards == {1}
Pets == {1, 2}
Rooms == {1, 2}
Services == 1..NumServices
Medicines == 1..NumMedicines
Times == 0..MaxTime
\* The payment-days listing reaches back MaxDays - 1 days before today
\* (365 in the source); DefaultDays stands for its default of 7.
MaxDays == 3
DefaultDays == 2
Dates == (1 - MaxDays)..MaxTime
\* Two nurses, two doctors, one schedule per nurse, task ids in creation order.
Nurses == {1, 2}
Doctors == {1, 2}
Schedules == {1, 2}
Tasks == 1..NumTasks
DoctorTasks == 1..NumDoctorTasks

\* ---------------------------------------------------------------------
\* Catalog (Service.price, Service.price_up_to, Medicine.price)
\* ---------------------------------------------------------------------
\* Odd services have a fixed price, even services a price range.
ServicePrice(s) == s
PriceUpTo(s) == IF s % 2 = 0 THEN ServicePrice(s) + 1 ELSE None
MedicinePrice(m) == m

\* The pet a card is created for, and the card's responsible doctor.
InitialPet(c) == c
CardDoctor(c) == 1

\* Nurse.rate_per_task.
rate_per_task(n) == n

VARIABLES
    cards,        \* MedicalCard rows with their service links and m2m sets
    rooms,        \* StationaryRoom rows
    pets,         \* ids of the stored Pet rows
    payments,     \* Payment row of each card (one-to-one)
    paymentDay,   \* PaymentDay.price by date, None when the row is absent
    schedules,    \* Schedule rows
    tasks,        \* nurse Task rows by id
    nurses,       \* Nurse.salary_per_day and Nurse.total_salary
    dailySalary,  \* NurseDailySalary rows by nurse and stored date
    nurseIncome,  \* NurseIncome row of each nurse (one-to-one)
    doctorTasks,  \* DoctorTask rows by id
    doctorIncome, \* DoctorIncome row of each doctor (one-to-one)
    now,          \* the clock: timezone.now() / timezone.localdate()
    resp,         \* the last request and its outcome
    cache,        \* the cache entry nurse_salary_daily_reset_date
    procs,        \* requests and jobs in flight, one per worker
    resetsToday   \* history: salary resets run on the current day (0, 1, many)

vars == <<cards, rooms, pets, payments, paymentDay, schedules, tasks, nurses,
          dailySalary, nurseIncome, doctorTasks, doctorIncome, now, resp,
          cache, procs, resetsToday>>

\* The relational store as one value, so that handlers compose.
DB == [cards |-> cards, rooms |-> rooms, pets |-> pets,
       payments |-> payments, paymentDay |-> paymentDay,
       schedules |-> schedules, tasks |-> tasks, nurses |-> nurses,
       dailySalary |-> dailySalary, nurseIncome |-> nurseIncome,
       doctorTasks |-> doctorTasks, doctorIncome |-> doctorIncome]

\* The rows of d become the stored rows.
Store(d) ==
    /\ cards' = d.cards
    /\ rooms' = d.rooms
    /\ pets' = d.pets
    /\ payments' = d.payments
    /\ paymentDay' = d.paymentDay
    /\ schedules' = d.schedules
    /\ tasks' = d.tasks
    /\ nurses' = d.nurses
    /\ dailySalary' = d.dailySalary
    /\ nurseIncome' = d.nurseIncome
    /\ doctorTasks' = d.doctorTasks
    /\ doctorIncome' = d.doctorIncome

\* A request handled from start to end with no other request in flight.
Commit(d) ==
    /\ Store(d)
    /\ UNCHANGED <<cache, procs, resetsToday>>

RECURSIVE SumOver(_, _)
SumOver(S, f) ==
    IF S = {} THEN 0
    ELSE LET x == CHOOSE y \in S : TRUE
         IN f[x] + SumOver(S \ {x}, f)

\* ---------------------------------------------------------------------
\* Pricing ledger
\* ---------------------------------------------------------------------
LinkedServices(card) == {s \in Services : card.service_links[s] # None}

\* A total that prices every linked service at its base price.
update_total_fee_base_prices(d, c) ==
    LET card == d.cards[c]
        service_total ==
            SumOver(LinkedServices(card) \cup card.services,
                    [s \in Services |-> ServicePrice(s)])
        medicine_total ==
            SumOver(card.medicines, [m \in Medicines |-> MedicinePrice(m)])
    IN [d EXCEPT !.cards[c].total_fee = service_total + medicine_total]

\* A recompute that adds the current sum to the stored total.
update_total_fee_accumulating(d, c) ==
    LET card == d.cards[c]
        linked == LinkedServices(card)
        service_total ==
            IF linked # {}
            THEN SumOver(linked, card.service_links)
            ELSE SumOver(card.services, [s \in Services |-> ServicePrice(s)])
        medicine_total ==
            SumOver(card.medicines, [m \in Medicines |-> MedicinePrice(m)])
    IN [d EXCEPT !.cards[c].total_fee =
            IF @ + service_total + medicine_total <= 2 * NumServices * MaxPrice
            THEN @ + service_total + medicine_total ELSE @]

\* MedicalCard.update_total_fee: narrow write of total_fee only.
update_total_fee(d, c) ==
    LET card == d.cards[c]
        linked == LinkedServices(card)
        service_total ==
            IF linked # {}
            THEN SumOver(linked, card.service_links)
            ELSE SumOver(card.services, [s \in Services |-> ServicePrice(s)])
        medicine_total ==
            SumOver(card.medicines, [m \in Medicines |-> MedicinePrice(m)])
    IN [d EXCEPT !.cards[c].total_fee = service_total + medicine_total]

\* A save that stamps closed_at anew on every save of a paid card.
MedicalCard_save_restamping(card) ==
    IF card.status = "paid" THEN [card EXCEPT !.closed_at = now]
    ELSE [card EXCEPT !.closed_at = None]

\* MedicalCard.save: closed_at follows status.
MedicalCard_save(card) ==
    IF card.status = "paid" /\ card.closed_at = None
    THEN [card EXCEPT !.closed_at = now]
    ELSE IF card.status # "paid" /\ card.closed_at # None
    THEN [card EXCEPT !.closed_at = None]
    ELSE card

\* MedicalCardService.objects.update_or_create + post_save receiver.
MedicalCardService_save(d, c, s, price) ==
    update_total_fee([d EXCEPT !.cards[c].service_links[s] = price], c)

\* MedicalCardService.objects.filter(medical_card=card).delete() + the
\* post_delete receiver, which runs once per deleted row.
MedicalCardService_delete(d, c) ==
    IF LinkedServices(d.cards[c]) = {} THEN d
    ELSE update_total_fee(
            [d EXCEPT !.cards[c].service_links = [s \in Services |-> None]], c)

\* card.medicines.set(...) + the m2m_changed receiver on medicines.through
\* (post_remove / post_add are sent only when something changes).
medicines_set(d, c, meds) ==
    IF d.cards[c].medicines = meds THEN d
    ELSE update_total_fee([d EXCEPT !.cards[c].medicines = meds], c)

\* card.services.set(...): no receiver listens on services.through.
services_set(d, c, svcs) == [d EXCEPT !.cards[c].services = svcs]

\* A price contract whose upper bound is exclusive.
PriceVerdict_exclusive_upper(svc, price) ==
    IF svc \notin Services THEN "NotFound"
    ELSE IF PriceUpTo(svc) = None
    THEN (IF price # ServicePrice(svc) THEN "InvalidPrice" ELSE "ok")
    ELSE (IF price < ServicePrice(svc) \/ price >= PriceUpTo(svc)
          THEN "PriceOutOfRange" ELSE "ok")

\* The price contract of one (service, price) pair.
PriceVerdict(svc, price) ==
    IF svc \notin Services THEN "NotFound"
    ELSE IF PriceUpTo(svc) = None
    THEN (IF price # ServicePrice(svc) THEN "InvalidPrice" ELSE "ok")
    ELSE (IF price < ServicePrice(svc) \/ price > PriceUpTo(svc)
          THEN "PriceOutOfRange" ELSE "ok")

\* MedicalCardSerializer._apply_services_priced: validates and writes the
\* rows one item at a time; an invalid item raises after the earlier items
\* have been written.
RECURSIVE apply_services_priced(_, _, _, _)
apply_services_priced(d, c, selections, i) ==
    IF i > Len(selections) THEN [db |-> d, result |-> "ok"]
    ELSE LET sel == selections[i]
             verdict == PriceVerdict(sel.service_id, sel.price)
         IN IF verdict # "ok" THEN [db |-> d, result |-> verdict]
            ELSE apply_services_priced(
                    MedicalCardService_save(d, c, sel.service_id, sel.price),
                    c, selections, i + 1)

SelectedServices(selections) ==
    {selections[i].service_id : i \in 1..Len(selections)}

\* Plain service ids: one link per service at the service's base price.
RECURSIVE apply_services_plain(_, _, _)
apply_services_plain(d, c, svcs) ==
    IF svcs = {} THEN d
    ELSE LET s == CHOOSE x \in svcs : TRUE
         IN apply_services_plain(
                MedicalCardService_save(d, c, s, ServicePrice(s)), c, svcs \ {s})

\* ---------------------------------------------------------------------
\* Room allocator
\* ---------------------------------------------------------------------
\* StationaryRoom.save: is_occupied follows pet; dates are auto-stamped.
StationaryRoom_save(r) ==
    IF r.pet # Null /\ ~r.is_occupied
    THEN LET adm == IF r.admission_date = None THEN now ELSE r.admission_date
             rel == IF r.release_date # None /\ r.release_date < adm
                    THEN None ELSE r.release_date
         IN [r EXCEPT !.is_occupied = TRUE, !.admission_date = adm,
                      !.release_date = rel]
    ELSE IF r.pet = Null /\ r.is_occupied
    THEN [r EXCEPT !.is_occupied = FALSE,
                   !.release_date = IF @ = None THEN now ELSE @]
    ELSE r

\* StationaryRoom.objects.filter(pet=p).exclude(pk=room).first(); pet is a
\* one-to-one field, so there is at most one such room.
RoomOfPetExcept(d, p, room) ==
    LET found == {r \in Rooms : r # room /\ d.rooms[r].pet = p}
    IN IF found = {} THEN Null ELSE CHOOSE r \in found : TRUE

\* Unbind a room on behalf of a card: pet = None, the card's release date
\* if it has one, then save().
release_room_for(d, r, card) ==
    LET r1 == [d.rooms[r] EXCEPT !.pet = Null]
        r2 == IF card.room_release_date # None
              THEN [r1 EXCEPT !.release_date = card.room_release_date] ELSE r1
    IN [d EXCEPT !.rooms[r] = StationaryRoom_save(r2)]

\* A binding that leaves the pet's other room bound.
apply_stationary_room_updates_keep_existing(d, c) ==
    LET card == d.cards[c]
        room == card.stationary_room
    IN IF room = Null THEN d
       ELSE IF d.rooms[room].is_occupied
               /\ d.rooms[room].pet \notin {Null, card.pet}
       THEN d
       ELSE [d EXCEPT !.rooms[room] =
                StationaryRoom_save([@ EXCEPT !.pet = card.pet])]

\* MedicalCardSerializer._apply_stationary_room_updates.
apply_stationary_room_updates(d, c) ==
    LET card == d.cards[c]
        room == card.stationary_room
    IN IF room = Null THEN d
       ELSE IF d.rooms[room].is_occupied
               /\ d.rooms[room].pet \notin {Null, card.pet}
       THEN d
       ELSE LET existing_room == RoomOfPetExcept(d, card.pet, room)
                d1 == IF existing_room # Null
                      THEN release_room_for(d, existing_room, card) ELSE d
                r1 == [d1.rooms[room] EXCEPT !.pet = card.pet]
                r2 == IF card.room_admission_date # None
                      THEN [r1 EXCEPT !.admission_date = card.room_admission_date]
                      ELSE r1
                r3 == IF card.room_release_date # None
                      THEN [r2 EXCEPT !.release_date = card.room_release_date]
                      ELSE r2
                r4 == IF r3.admission_date # None /\ r3.release_date # None
                         /\ r3.release_date < r3.admission_date
                      THEN [r3 EXCEPT !.release_date = None] ELSE r3
            IN [d1 EXCEPT !.rooms[room] = StationaryRoom_save(r4)]

\* ---------------------------------------------------------------------
\* Card update request (PATCH /medical-cards/<id>/)
\* ---------------------------------------------------------------------
\* A request carries, for each writable field, a value or Absent.
Given(x) == x # Absent /\ x # None

\* MedicalCardSerializer.validate without the admission-date requirement.
MedicalCardSerializer_validate_admission_optional(d, c, req) ==
    LET card == d.cards[c]
        current_room == card.stationary_room
        new_room == IF req.room = Absent THEN Null ELSE req.room
        admission == req.adm
        release == req.rel
    IN IF req.pet # Absent /\ req.pet \notin d.pets THEN "NotFound"
       ELSE IF req.has_priced
               /\ \E i \in 1..Len(req.priced) :
                      req.priced[i].service_id \notin Services
       THEN "NotFound"
       \* stationary_room_id queryset: free rooms and the card's current room
       ELSE IF new_room # Null /\ d.rooms[new_room].is_occupied
               /\ new_room # current_room
       THEN "RoomOccupied"
       ELSE IF Given(admission) /\ Given(release) /\ release < admission
       THEN "ReleaseBeforeAdmission"
       ELSE "ok"

\* Field validation of the request followed by MedicalCardSerializer.validate;
\* nothing has been written when it fails.
MedicalCardSerializer_validate(d, c, req) ==
    LET card == d.cards[c]
        current_room == card.stationary_room
        new_room == IF req.room = Absent THEN Null ELSE req.room
        admission == req.adm
        release == req.rel
    IN IF req.pet # Absent /\ req.pet \notin d.pets THEN "NotFound"
       ELSE IF req.has_priced
               /\ \E i \in 1..Len(req.priced) :
                      req.priced[i].service_id \notin Services
       THEN "NotFound"
       \* stationary_room_id queryset: free rooms and the card's current room
       ELSE IF new_room # Null /\ d.rooms[new_room].is_occupied
               /\ new_room # current_room
       THEN "RoomOccupied"
       ELSE IF new_room # Null /\ new_room # current_room /\ ~Given(admission)
       THEN "AdmissionDateRequired"
       ELSE IF Given(admission) /\ Given(release) /\ release < admission
       THEN "ReleaseBeforeAdmission"
       ELSE "ok"

\* ModelSerializer.update: setattr for every field given, then card.save().
serializer_update_fields(d, c, req) ==
    LET c0 == d.cards[c]
        c1 == IF req.status # "absent" THEN [c0 EXCEPT !.status = req.status] ELSE c0
        c2 == IF req.pet # Absent THEN [c1 EXCEPT !.pet = req.pet] ELSE c1
        c3 == IF req.room # Absent THEN [c2 EXCEPT !.stationary_room = req.room] ELSE c2
        c4 == IF req.adm # Absent THEN [c3 EXCEPT !.room_admission_date = req.adm] ELSE c3
        c5 == IF req.rel # Absent THEN [c4 EXCEPT !.room_release_date = req.rel] ELSE c4
    IN [d EXCEPT !.cards[c] = MedicalCard_save(c5)]

\* The selection part of MedicalCardSerializer.update.
update_selections(d, c, req) ==
    IF req.has_priced
    THEN LET d1 == MedicalCardService_delete(d, c)
         IN IF req.priced # <<>>
            THEN LET applied == apply_services_priced(d1, c, req.priced, 1)
                 IN IF applied.result = "ok"
                    THEN [db |-> services_set(applied.db, c,
                                              SelectedServices(req.priced)),
                          result |-> "ok"]
                    ELSE applied
            ELSE [db |-> services_set(d1, c, {}), result |-> "ok"]
    ELSE IF req.has_services
    THEN LET d1 == MedicalCardService_delete(d, c)
             d2 == apply_services_plain(d1, c, req.services)
         IN [db |-> services_set(d2, c, req.services), result |-> "ok"]
    ELSE [db |-> d, result |-> "ok"]

\* MedicalCardSerializer.update after validation. An exception raised by
\* the priced selection leaves what was written before it.
MedicalCardSerializer_update(d, c, req) ==
    LET old_room == d.cards[c].stationary_room
        d1 == serializer_update_fields(d, c, req)
        sel == update_selections(d1, c, req)
    IN IF sel.result # "ok" THEN sel
       ELSE LET d2 == sel.db
                d3 == IF req.has_medicines
                      THEN medicines_set(d2, c, req.medicines) ELSE d2
                card == d3.cards[c]
                d4 == IF old_room # Null /\ card.stationary_room # old_room
                      THEN release_room_for(d3, old_room, card) ELSE d3
                d5 == apply_stationary_room_updates(d4, c)
            IN [db |-> update_total_fee(d5, c), result |-> "ok"]

HandleUpdateCard(d, c, req) ==
    LET verdict == MedicalCardSerializer_validate(d, c, req)
    IN IF verdict # "ok" THEN [db |-> d, result |-> verdict]
       ELSE MedicalCardSerializer_update(d, c, req)

\* ---------------------------------------------------------------------
\* Payment settlement
\* ---------------------------------------------------------------------
\* pre_save receiver mark_payment_transition: the _became_paid flag.
mark_payment_transition(prev, row, created) ==
    IF created THEN row.status = "paid"
    ELSE prev.status # "paid" /\ row.status = "paid"

\* A receiver that closes the card and leaves a zero amount as it is.
set_card_paid_without_backfill(d, c, row) ==
    IF row.status # "paid" \/ d.cards[c].status = "paid" THEN d
    ELSE [d EXCEPT !.cards[c] =
            MedicalCard_save([d.cards[c] EXCEPT !.status = "paid"])]

\* post_save receiver set_card_paid_on_payment.
set_card_paid_on_payment(d, c, row) ==
    IF row.status # "paid" THEN d
    ELSE LET d1 == IF row.amount = 0
                   THEN [d EXCEPT !.payments[c].amount = d.cards[c].total_fee]
                   ELSE d
             card == d1.cards[c]
         IN IF card.status # "paid"
            THEN [d1 EXCEPT !.cards[c] =
                    MedicalCard_save([card EXCEPT !.status = "paid"])]
            ELSE d1

\* get_or_create(date=today, price=0) followed by the F("price") increment.
payment_day_increment(d, day, amount) ==
    [d EXCEPT !.paymentDay[day] = (IF @ = None THEN 0 ELSE @) + amount]

\* A ledger update that takes the payment's own amount only.
update_payment_day_no_fallback(d, c, row, became_paid_flag, created) ==
    LET became_paid == became_paid_flag \/ (created /\ row.status = "paid")
    IN IF ~became_paid \/ row.amount = 0 THEN d
       ELSE payment_day_increment(d, now, row.amount)

\* post_save receiver update_payment_day_on_paid.
update_payment_day_on_paid(d, c, row, became_paid_flag, created) ==
    LET became_paid == became_paid_flag \/ (created /\ row.status = "paid")
        amount == IF row.amount # 0 THEN row.amount ELSE d.cards[c].total_fee
    IN IF ~became_paid THEN d
       ELSE IF amount = 0 THEN d
       ELSE payment_day_increment(d, now, amount)

\* Payment.save with its receivers in registration order.
Payment_save(d, c, row, created) ==
    LET flag == mark_payment_transition(d.payments[c], row, created)
        d1 == [d EXCEPT !.payments[c] = row]
        d2 == set_card_paid_on_payment(d1, c, row)
    IN update_payment_day_on_paid(d2, c, row, flag, created)

NoPayment == [status |-> "none", amount |-> 0]

\* ---------------------------------------------------------------------
\* Nurse tasks, daily salaries and incomes
\* ---------------------------------------------------------------------
NewSchedule(s) ==
    [assigned_nurse |-> s, start_date |-> 0, end_date |-> MaxTime]

\* A task id is "new" until it is created and "deleted" afterwards.
NewTask ==
    [state |-> "new", schedule |-> Null, nurse |-> Null, day |-> None,
     is_done |-> FALSE, done_at |-> None, price |-> 0]

NoDailySalary ==
    [exists |-> FALSE, total_tasks |-> 0, completed_tasks |-> 0, salary |-> 0]

NoNurseIncome ==
    [exists |-> FALSE, daily_total |-> 0, monthly_total |-> 0,
     last_reset |-> None]

\* Task.objects.filter(nurse=nurse, day=the_day)
TasksOf(d, n, the_day) ==
    {t \in Tasks : d.tasks[t].state = "stored" /\ d.tasks[t].nurse = n
                   /\ d.tasks[t].day = the_day}

\* _recalculate_daily_salary. get_or_create looks the row up by
\* (nurse, the_day); a row it has to create is stored under today's date
\* (NurseDailySalary.date is auto_now_add), and (nurse, date) is unique.
recalculate_daily_salary(d, n, the_day) ==
    LET qs == TasksOf(d, n, the_day)
        total == Cardinality(qs)
        completed == Cardinality({t \in qs : d.tasks[t].is_done})
        salary_amount ==
            IF completed # 0 THEN rate_per_task(n) * completed ELSE 0
        row == [exists |-> TRUE, total_tasks |-> total,
                completed_tasks |-> completed, salary |-> salary_amount]
        found == d.dailySalary[n][the_day].exists
        stored_date == IF found THEN the_day ELSE now
        d1 == [d EXCEPT !.dailySalary[n][stored_date] = row]
        agg == SumOver(Times, [t \in Times |-> d1.dailySalary[n][t].salary])
        n1 == IF the_day = now
              THEN [d1.nurses[n] EXCEPT !.salary_per_day = row.salary]
              ELSE d1.nurses[n]
    IN IF ~found /\ d.dailySalary[n][now].exists
       THEN [db |-> d, result |-> "IntegrityError"]
       ELSE [db |-> [d1 EXCEPT !.nurses[n] = [n1 EXCEPT !.total_salary = agg]],
             result |-> "ok"]

\* pre_save receiver set_done_at_on_completion: the row as it is written.
set_done_at_on_completion(prev, row, created) ==
    LET stamped ==
            IF row.is_done /\ (created \/ ~prev.is_done) /\ row.done_at = None
            THEN [row EXCEPT !.done_at = now] ELSE row
    IN IF created /\ stamped.price = 0 /\ rate_per_task(stamped.nurse) # 0
       THEN [stamped EXCEPT !.price = rate_per_task(stamped.nurse)]
       ELSE stamped

\* pre_save receiver set_done_at_on_completion: _mark_done_transition.
mark_done_transition(prev, row, created) ==
    IF created THEN row.is_done ELSE ~prev.is_done /\ row.is_done

\* post_save receiver increment_nurse_income_on_task_done.
increment_nurse_income_on_task_done(d, row, flag, created) ==
    IF ~(flag \/ (created /\ row.is_done)) THEN d
    ELSE [d EXCEPT !.nurseIncome[row.nurse] =
            [@ EXCEPT !.exists = TRUE, !.daily_total = @ + row.price]]

\* The scheduled job nurse_income_daily_rollover.
nurse_income_daily_rollover(d) ==
    [d EXCEPT !.nurseIncome = [n \in Nurses |->
        IF @[n].exists
        THEN [@[n] EXCEPT !.monthly_total = @ + d.nurseIncome[n].daily_total,
                          !.daily_total = 0,
                          !.last_reset = now]
        ELSE @[n]]]

\* Task.save with its receivers in registration order; an exception in
\* the first post_save receiver leaves the written row and skips the second.
Task_save(d, t, row, created) ==
    LET prev == d.tasks[t]
        row1 == set_done_at_on_completion(prev, row, created)
        flag == mark_done_transition(prev, row, created)
        d1 == [d EXCEPT !.tasks[t] = [row1 EXCEPT !.state = "stored"]]
        out == recalculate_daily_salary(d1, row1.nurse, row1.day)
    IN IF out.result # "ok" THEN [db |-> d1, result |-> out.result]
       ELSE [db |-> increment_nurse_income_on_task_done(out.db, row1, flag,
                                                        created),
             result |-> "ok"]

\* Task.delete taking the price of a completed task back out of the
\* nurse's daily_total.
Task_delete_refunding(d, t) ==
    LET row == d.tasks[t]
        d1 == [d EXCEPT !.tasks[t] = [NewTask EXCEPT !.state = "deleted"]]
        out == recalculate_daily_salary(d1, row.nurse, row.day)
    IN IF out.result # "ok" THEN [db |-> d, result |-> out.result]
       ELSE IF row.is_done /\ out.db.nurseIncome[row.nurse].daily_total >= row.price
       THEN [out EXCEPT !.db.nurseIncome[row.nurse].daily_total = @ - row.price]
       ELSE out

\* Task.delete: the row deletion and the post_delete receiver
\* update_salary_on_task_delete run in one transaction.
Task_delete(d, t) ==
    LET row == d.tasks[t]
        d1 == [d EXCEPT !.tasks[t] = [NewTask EXCEPT !.state = "deleted"]]
        out == recalculate_daily_salary(d1, row.nurse, row.day)
    IN IF out.result # "ok" THEN [db |-> d, result |-> out.result]
       ELSE out

\* The row a request describes: the stored row with the given fields set.
TaskRowOf(inst, req) ==
    [inst EXCEPT
        !.schedule = IF req.schedule # Absent THEN req.schedule ELSE @,
        !.nurse = IF req.nurse # Absent THEN req.nurse ELSE @,
        !.day = IF req.day # Absent THEN req.day ELSE @,
        !.is_done = IF req.is_done # "absent" THEN req.is_done = "true" ELSE @,
        !.price = IF req.price # Absent THEN req.price ELSE @]

\* TaskSerializer.validate with the last day of the schedule excluded.
TaskSerializer_validate_exclusive_end(d, inst, req) ==
    LET row == TaskRowOf(inst, req)
    IN IF row.schedule \notin Schedules \/ row.nurse \notin Nurses
       THEN "NotFound"
       ELSE IF inst.is_done /\ req.is_done = "true" THEN "AlreadyDone"
       ELSE IF d.schedules[row.schedule].assigned_nurse # row.nurse
       THEN "NurseScheduleMismatch"
       ELSE IF row.day < d.schedules[row.schedule].start_date
               \/ row.day >= d.schedules[row.schedule].end_date
       THEN "DayOutOfRange"
       ELSE "ok"

\* TaskSerializer: related-field lookups, then validate().
TaskSerializer_validate(d, inst, req) ==
    LET row == TaskRowOf(inst, req)
    IN IF row.schedule \notin Schedules \/ row.nurse \notin Nurses
       THEN "NotFound"
       ELSE IF inst.is_done /\ req.is_done = "true" THEN "AlreadyDone"
       ELSE IF d.schedules[row.schedule].assigned_nurse # row.nurse
       THEN "NurseScheduleMismatch"
       ELSE IF row.day < d.schedules[row.schedule].start_date
               \/ row.day > d.schedules[row.schedule].end_date
       THEN "DayOutOfRange"
       ELSE "ok"

\* TaskViewSet.create (POST by a doctor).
HandleCreateTask(d, t, req) ==
    LET verdict == TaskSerializer_validate(d, NewTask, req)
    IN IF verdict # "ok" THEN [db |-> d, result |-> verdict]
       ELSE Task_save(d, t, TaskRowOf(NewTask, req), TRUE)

\* IsDoctorOrAssignedNurseForTask.has_object_permission and
\* TaskViewSet.update; req.actor is the requesting nurse, Null for a doctor.
HandleUpdateTask(d, t, req) ==
    LET inst == d.tasks[t]
        verdict == TaskSerializer_validate(d, inst, req)
    IN IF req.actor # Null /\ req.actor # inst.nurse
       THEN [db |-> d, result |-> "Forbidden"]
       ELSE IF req.is_done = "true" /\ req.actor # inst.nurse
       THEN [db |-> d, result |-> "Forbidden"]
       ELSE IF verdict # "ok" THEN [db |-> d, result |-> verdict]
       ELSE Task_save(d, t, TaskRowOf(inst, req), FALSE)

\* ScheduleSerializer.validate on an update of schedule s.
ScheduleSerializer_validate(d, s, req) ==
    LET start == IF req.start_date # Absent THEN req.start_date
                 ELSE d.schedules[s].start_date
        end == IF req.end_date # Absent THEN req.end_date
               ELSE d.schedules[s].end_date
    IN IF req.nurse # Absent /\ req.nurse \notin Nurses THEN "NotFound"
       ELSE IF end < start THEN "EndBeforeStart"
       ELSE "ok"

\* ScheduleViewSet.update: ModelSerializer.update, setattr and save().
HandleUpdateSchedule(d, s, req) ==
    LET verdict == ScheduleSerializer_validate(d, s, req)
        s0 == d.schedules[s]
        s1 == IF req.nurse # Absent THEN [s0 EXCEPT !.assigned_nurse = req.nurse]
              ELSE s0
        s2 == IF req.start_date # Absent
              THEN [s1 EXCEPT !.start_date = req.start_date] ELSE s1
        s3 == IF req.end_date # Absent
              THEN [s2 EXCEPT !.end_date = req.end_date] ELSE s2
    IN IF verdict # "ok" THEN [db |-> d, result |-> verdict]
       ELSE [db |-> [d EXCEPT !.schedules[s] = s3], result |-> "ok"]

\* ---------------------------------------------------------------------
\* Doctor tasks and incomes
\* ---------------------------------------------------------------------
NewDoctorTask ==
    [state |-> "new", doctor |-> Null, service |-> Null,
     is_done |-> FALSE, done_at |-> None, price |-> 0]

NoDoctorIncome == [exists |-> FALSE, monthly_total |-> 0]

\* pre_save receiver set_doctor_task_defaults: the row as it is written.
set_doctor_task_defaults(prev, row, created) ==
    LET priced == IF created /\ row.price = 0
                  THEN [row EXCEPT !.price = ServicePrice(row.service)]
                  ELSE row
    IN IF priced.is_done /\ (created \/ ~prev.is_done) /\ priced.done_at = None
       THEN [priced EXCEPT !.done_at = now] ELSE priced

\* set_doctor_task_defaults never assigns _mark_done_transition, so the
\* post_save receiver reads the getattr default.
doctor_mark_done_transition(prev, row, created) == FALSE

\* post_save receiver increment_doctor_income_on_done.
increment_doctor_income_on_done(d, row, flag, created) ==
    IF ~(flag \/ (created /\ row.is_done)) THEN d
    ELSE [d EXCEPT !.doctorIncome[row.doctor] =
            [@ EXCEPT !.exists = TRUE, !.monthly_total = @ + row.price]]

DoctorTask_save(d, t, row, created) ==
    LET prev == d.doctorTasks[t]
        row1 == set_doctor_task_defaults(prev, row, created)
        flag == doctor_mark_done_transition(prev, row, created)
        d1 == [d EXCEPT !.doctorTasks[t] = [row1 EXCEPT !.state = "stored"]]
    IN increment_doctor_income_on_done(d1, row1, flag, created)

DoctorTaskRowOf(inst, req) ==
    [inst EXCEPT
        !.doctor = IF req.doctor # Absent THEN req.doctor ELSE @,
        !.service = IF req.service # Absent THEN req.service ELSE @,
        !.is_done = IF req.is_done # "absent" THEN req.is_done = "true" ELSE @,
        !.price = IF req.price # Absent THEN req.price ELSE @]

\* DoctorTaskSerializer: related-field lookups, then validate(); the task
\* belongs to card c.
DoctorTaskSerializer_validate(c, inst, req) ==
    LET row == DoctorTaskRowOf(inst, req)
    IN IF row.doctor \notin Doctors \/ row.service \notin Services
       THEN "NotFound"
       ELSE IF inst.is_done /\ req.is_done = "true" THEN "AlreadyDone"
       ELSE IF CardDoctor(c) # row.doctor THEN "DoctorCardMismatch"
       ELSE "ok"

\* DoctorTaskViewSet.perform_create with DoctorTaskSerializer.create:
\* the requesting doctor req.actor becomes the task's doctor.
HandleCreateDoctorTask(d, c, t, req) ==
    LET verdict == DoctorTaskSerializer_validate(c, NewDoctorTask, req)
        row == DoctorTaskRowOf(NewDoctorTask, req)
        priced == IF row.price = 0
                  THEN [row EXCEPT !.price = ServicePrice(row.service)]
                  ELSE row
    IN IF verdict # "ok" THEN [db |-> d, result |-> verdict]
       ELSE [db |-> DoctorTask_save(d, t, [priced EXCEPT !.doctor = req.actor],
                                    TRUE),
             result |-> "ok"]

\* IsDoctorOwnerOrAdmin.has_object_permission and ModelSerializer.update.
HandleUpdateDoctorTask(d, c, t, req) ==
    LET inst == d.doctorTasks[t]
        verdict == DoctorTaskSerializer_validate(c, inst, req)
    IN IF req.actor # inst.doctor THEN [db |-> d, result |-> "Forbidden"]
       ELSE IF verdict # "ok" THEN [db |-> d, result |-> verdict]
       ELSE [db |-> DoctorTask_save(d, t, DoctorTaskRowOf(inst, req), FALSE),
             result |-> "ok"]

\* A request: for each writable field a value, or Absent when the field is
\* not part of the request. The response names the request and its outcome.
NoReq ==
    [status |-> "absent", pet |-> Absent, room |-> Absent, adm |-> Absent,
     rel |-> Absent, has_priced |-> FALSE, priced |-> <<>>,
     has_services |-> FALSE, services |-> {},
     has_medicines |-> FALSE, medicines |-> {},
     is_occupied |-> "absent", amount |-> Absent,
     actor |-> Null, schedule |-> Absent, nurse |-> Absent, day |-> Absent,
     is_done |-> "absent", price |-> Absent, doctor |-> Absent,
     service |-> Absent, start_date |-> Absent, end_date |-> Absent,
     days_given |-> "absent", days |-> 0]

Resp(op, id, req, result) ==
    [op |-> op, id |-> id, req |-> req, result |-> result, rows |-> <<>>]

\* ---------------------------------------------------------------------
\* Initial state: cards, rooms and pets exist, nothing is selected,
\* bound or paid.
\* ---------------------------------------------------------------------
NewCard(c) ==
    [pet |-> InitialPet(c), status |-> "pending", closed_at |-> None,
     total_fee |-> 0, stationary_room |-> Null,
     room_admission_date |-> None, room_release_date |-> None,
     service_links |-> [s \in Services |-> None],
     services |-> {}, medicines |-> {}]

NewRoom ==
    [is_occupied |-> FALSE, pet |-> Null, admission_date |-> None,
     release_date |-> None]

\* A worker (a gunicorn thread or a celery worker) and the request or job
\* it is in the middle of.
Workers == {1, 2}

Idle ==
    [pc |-> "idle", op |-> "none", id |-> Null, req |-> NoReq,
     ledger |-> "none", who |-> Null, amount |-> 0, seen |-> 0,
     snap |-> [n \in Nurses |-> NoNurseIncome], room |-> NewRoom]

Init ==
    /\ cards = [c \in Cards |-> NewCard(c)]
    /\ rooms = [r \in Rooms |-> NewRoom]
    /\ pets = Pets
    /\ payments = [c \in Cards |-> NoPayment]
    /\ paymentDay = [t \in Dates |-> None]
    /\ schedules = [s \in Schedules |-> NewSchedule(s)]
    /\ tasks = [t \in Tasks |-> NewTask]
    /\ nurses = [n \in Nurses |-> [salary_per_day |-> 0, total_salary |-> 0]]
    /\ dailySalary = [n \in Nurses |-> [t \in Times |-> NoDailySalary]]
    /\ nurseIncome = [n \in Nurses |-> NoNurseIncome]
    /\ doctorTasks = [t \in DoctorTasks |-> NewDoctorTask]
    /\ doctorIncome = [n \in Doctors |-> NoDoctorIncome]
    /\ now = 0
    /\ resp = Resp("none", Null, NoReq, "ok")
    /\ cache = None
    /\ procs = [w \in Workers |-> Idle]
    /\ resetsToday = 0

\* ---------------------------------------------------------------------
\* Actions
\* ---------------------------------------------------------------------
UpdateCard(c, req) ==
    LET out == HandleUpdateCard(DB, c, req)
    IN /\ Commit(out.db)
       /\ resp' = Resp("UpdateCard", c, req, out.result)
       /\ UNCHANGED now

\* POST or PUT of a payment for card c (one payment per card).
SavePayment(c, status, amount) ==
    LET created == payments[c].status = "none"
        row == [status |-> status, amount |-> amount]
        d == Payment_save(DB, c, row, created)
        req == [NoReq EXCEPT !.status = status, !.amount = amount]
    IN /\ \A t \in Times : d.paymentDay[t] <= MaxLedger
       /\ Commit(d)
       /\ resp' = Resp("SavePayment", c, req, "ok")
       /\ UNCHANGED now

Tick ==
    /\ now < MaxTime
    /\ now' = now + 1
    /\ resp' = Resp("Tick", Null, NoReq, "ok")
    /\ UNCHANGED <<cards, rooms, pets, payments, paymentDay, schedules, tasks,
                   nurses, dailySalary, nurseIncome, doctorTasks,
                   doctorIncome, cache, procs>>
    /\ resetsToday' = 0

\* ---------------------------------------------------------------------
\* Pricing ledger: selection requests on one card
\* ---------------------------------------------------------------------
PriceInputs == 1..MaxPrice
ServiceIdInputs == 1..(NumServices + 1)
PricedItems == [service_id : ServiceIdInputs, price : PriceInputs]
PricedLists == UNION {[1..n -> PricedItems] : n \in 0..MaxSel}
SetInputs(S) ==
    {[has |-> FALSE, set |-> {}]} \cup {[has |-> TRUE, set |-> x] : x \in SUBSET S}

SelectPriced ==
    \E sel \in PricedLists :
        UpdateCard(1, [NoReq EXCEPT !.has_priced = TRUE, !.priced = sel])

SelectPricedWithMedicines ==
    \E sel \in {l \in PricedLists : Len(l) <= 1}, meds \in SUBSET Medicines :
        UpdateCard(1, [NoReq EXCEPT !.has_priced = TRUE, !.priced = sel,
                                    !.has_medicines = TRUE, !.medicines = meds])

SelectPlain ==
    \E svcs \in SetInputs(Services), meds \in SetInputs(Medicines) :
        UpdateCard(1, [NoReq EXCEPT !.has_services = svcs.has,
                                    !.services = svcs.set,
                                    !.has_medicines = meds.has,
                                    !.medicines = meds.set])

NextFee == SelectPriced \/ SelectPricedWithMedicines \/ SelectPlain

SpecFee == Init /\ [][NextFee]_vars

\* ---------------------------------------------------------------------
\* Payment days: the listing that fills missing days, and the daily job
\* ---------------------------------------------------------------------
\* The days query parameter: absent or unparsable gives the default, and
\* the number is clamped.
ClampDays(req) ==
    LET days == IF req.days_given = "int" THEN req.days ELSE DefaultDays
        capped == IF days > MaxDays THEN MaxDays ELSE days
    IN IF capped < 1 THEN 1 ELSE capped

\* A listing that writes price 0 into every day of the range.
PaymentDayView_get_queryset_resetting(d, req) ==
    LET days == ClampDays(req)
        start == now - (days - 1)
        d1 == [d EXCEPT !.paymentDay = [t \in Dates |->
                  IF start <= t /\ t <= now THEN 0 ELSE @[t]]]
    IN [db |-> d1,
        rows |-> [i \in 1..days |->
                    [date |-> start + i - 1,
                     price |-> d1.paymentDay[start + i - 1]]]]

\* PaymentDayView.get_queryset: get_or_create for every date of the
\* range, then the rows of the range ordered by date.
PaymentDayView_get_queryset(d, req) ==
    LET days == ClampDays(req)
        start == now - (days - 1)
        d1 == [d EXCEPT !.paymentDay = [t \in Dates |->
                  IF start <= t /\ t <= now /\ @[t] = None THEN 0 ELSE @[t]]]
    IN [db |-> d1,
        rows |-> [i \in 1..days |->
                    [date |-> start + i - 1,
                     price |-> d1.paymentDay[start + i - 1]]]]

\* The scheduled job ensure_payment_day_exists.
ensure_payment_day_exists(d) ==
    [d EXCEPT !.paymentDay[now] = IF @ = None THEN 0 ELSE @]

ListPaymentDays(req) ==
    LET out == PaymentDayView_get_queryset(DB, req)
    IN /\ Commit(out.db)
       /\ resp' = [Resp("ListPaymentDays", Null, req, "ok")
                      EXCEPT !.rows = out.rows]
       /\ UNCHANGED now

EnsurePaymentDay ==
    /\ Commit(ensure_payment_day_exists(DB))
    /\ resp' = Resp("EnsurePaymentDay", Null, NoReq, "ok")
    /\ UNCHANGED now

DaysInputs == 0..(MaxDays + 1)

ListDays ==
    \/ \E kind \in {"absent", "junk"} :
           ListPaymentDays([NoReq EXCEPT !.days_given = kind])
    \/ \E n \in DaysInputs :
           ListPaymentDays([NoReq EXCEPT !.days_given = "int", !.days = n])

\* A payment of the card is saved as paid or pending.
SettlePayment ==
    \E st \in {"pending", "paid"} : SavePayment(1, st, MaxAmount)

NextDays == ListDays \/ EnsurePaymentDay \/ SettlePayment \/ Tick

SpecDays == Init /\ [][NextDays]_vars

\* ---------------------------------------------------------------------
\* Recomputation of a card's total on its own
\* ---------------------------------------------------------------------
StatusInputs == {"absent", "pending", "in_progress", "paid"}

RecomputeTotal(c) ==
    /\ Commit(update_total_fee(DB, c))
    /\ resp' = Resp("RecomputeTotal", c, NoReq, "ok")
    /\ UNCHANGED now

Recompute == \E c \in Cards : RecomputeTotal(c)

SettleStatus ==
    \E st \in StatusInputs : UpdateCard(1, [NoReq EXCEPT !.status = st])

NextRecompute ==
    \/ SelectPricedWithMedicines \/ SelectPlain \/ SettleStatus
    \/ Recompute \/ Tick

SpecRecompute == Init /\ [][NextRecompute]_vars

\* ---------------------------------------------------------------------
\* Payment settlement: one card, its selections, status and payment
\* ---------------------------------------------------------------------
EditCard ==
    \E st \in StatusInputs, svcs \in SetInputs({1}) :
        UpdateCard(1, [NoReq EXCEPT !.status = st,
                                    !.has_services = svcs.has,
                                    !.services = svcs.set])

PayCard ==
    \E st \in {"pending", "paid"}, amount \in 0..MaxAmount :
        SavePayment(1, st, amount)

NextPay == EditCard \/ PayCard \/ Tick

SpecPay == Init /\ [][NextPay]_vars

\* ---------------------------------------------------------------------
\* Room management requests, pet deletion and the reclamation sweep
\* ---------------------------------------------------------------------
\* StationaryRoomSerializer: field validation and validate().
StationaryRoomSerializer_validate(d, r, req) ==
    IF req.pet \notin {Absent, Null} /\ req.pet \notin d.pets THEN "NotFound"
    ELSE IF req.pet \notin {Absent, Null} /\ d.rooms[r].is_occupied
            /\ d.rooms[r].pet # req.pet
    THEN "RoomOccupied"
    ELSE "ok"

\* ModelSerializer.update on a room: setattr for every field given, then
\* StationaryRoom.save(); the one-to-one pet column rejects a second room
\* for the same pet.
HandleManageRoom(d, r, req) ==
    LET verdict == StationaryRoomSerializer_validate(d, r, req)
        r0 == d.rooms[r]
        r1 == IF req.is_occupied # "absent"
              THEN [r0 EXCEPT !.is_occupied = (req.is_occupied = "true")] ELSE r0
        r2 == IF req.pet # Absent THEN [r1 EXCEPT !.pet = req.pet] ELSE r1
        r3 == IF req.adm # Absent THEN [r2 EXCEPT !.admission_date = req.adm] ELSE r2
        r4 == IF req.rel # Absent THEN [r3 EXCEPT !.release_date = req.rel] ELSE r3
    IN IF verdict # "ok" THEN [db |-> d, result |-> verdict]
       ELSE IF r4.pet # Null /\ RoomOfPetExcept(d, r4.pet, r) # Null
       THEN [db |-> d, result |-> "IntegrityError"]
       ELSE [db |-> [d EXCEPT !.rooms[r] = StationaryRoom_save(r4)],
             result |-> "ok"]

\* Pet.delete(): cards protect their pet; StationaryRoom.pet is SET_NULL,
\* which the collector applies with an UPDATE (no save()).
Pet_delete(d, p) ==
    IF \E c \in Cards : d.cards[c].pet = p
    THEN [db |-> d, result |-> "ProtectedError"]
    ELSE [db |-> [d EXCEPT !.pets = @ \ {p},
                           !.rooms = [r \in Rooms |->
                               IF @[r].pet = p THEN [@[r] EXCEPT !.pet = Null]
                               ELSE @[r]]],
          result |-> "ok"]

DueRooms_before_now(d) ==
    {r \in Rooms : d.rooms[r].release_date # None
                   /\ d.rooms[r].release_date < now /\ d.rooms[r].pet # Null}

\* tasks.release_due_rooms.
DueRooms(d) ==
    {r \in Rooms : d.rooms[r].release_date # None
                   /\ d.rooms[r].release_date <= now /\ d.rooms[r].pet # Null}

release_due_rooms(d) ==
    [d EXCEPT !.rooms = [r \in Rooms |->
        IF r \in DueRooms(d)
        THEN StationaryRoom_save([@[r] EXCEPT !.pet = Null]) ELSE @[r]]]

ManageRoom(r, req) ==
    LET out == HandleManageRoom(DB, r, req)
    IN /\ Commit(out.db)
       /\ resp' = Resp("ManageRoom", r, req, out.result)
       /\ UNCHANGED now

DeletePet(p) ==
    LET out == Pet_delete(DB, p)
    IN /\ p \in pets
       /\ Commit(out.db)
       /\ resp' = Resp("DeletePet", p, NoReq, out.result)
       /\ UNCHANGED now

Sweep ==
    /\ Commit(release_due_rooms(DB))
    /\ resp' = Resp("Sweep", Null, NoReq, "ok")
    /\ UNCHANGED now

\* ---------------------------------------------------------------------
\* Room allocator: cards, rooms, pets and the sweep
\* ---------------------------------------------------------------------
\* The clock stands still in this specification: every date given is now.
RoomInputs == {Absent, Null} \cup Rooms

AssignRoom ==
    \E c \in Cards, r \in RoomInputs, adm \in {Absent, now},
       rel \in {Absent, now} :
        UpdateCard(c, [NoReq EXCEPT !.room = r, !.adm = adm, !.rel = rel])

ChangeCardPet ==
    \E c \in Cards, p \in Pets :
        UpdateCard(c, [NoReq EXCEPT !.pet = p])

\* Room management writing is_occupied and pet directly.
ManageRoomBinding ==
    \E r \in Rooms, occ \in {"absent", "true", "false"},
       p \in {Absent, Null} \cup Pets :
        ManageRoom(r, [NoReq EXCEPT !.is_occupied = occ, !.pet = p])

DeletePets == \E p \in Pets : DeletePet(p)

NextRoom ==
    \/ AssignRoom \/ ChangeCardPet \/ ManageRoomBinding
    \/ DeletePets \/ Sweep

SpecRoom == Init /\ [][NextRoom]_vars

\* ---------------------------------------------------------------------
\* Dated stays: room assignments whose dates range over the calendar
\* ---------------------------------------------------------------------
DateInputs == {Absent} \cup Times

AssignDated ==
    \E c \in Cards, r \in {Absent} \cup Rooms, adm \in DateInputs,
       rel \in DateInputs :
        UpdateCard(c, [NoReq EXCEPT !.room = r, !.adm = adm, !.rel = rel])

NextStay == AssignDated \/ Sweep \/ Tick

SpecStay == Init /\ [][NextStay]_vars

\* The sweep is a periodic job: it keeps being run.
SpecStaySwept == SpecStay /\ WF_vars(Sweep)

\* ---------------------------------------------------------------------
\* Task requests
\* ---------------------------------------------------------------------
IncomesWithinBound(d) ==
    /\ \A n \in Nurses : d.nurseIncome[n].daily_total <= MaxLedger
    /\ \A n \in Doctors : d.doctorIncome[n].monthly_total <= MaxLedger

\* Ids are handed out in creation order and never reused.
NextId(rows, t) ==
    /\ rows[t].state = "new"
    /\ \A u \in DOMAIN rows : u < t => rows[u].state # "new"

CreateTask(t, req) ==
    LET out == HandleCreateTask(DB, t, req)
    IN /\ NextId(tasks, t)
       /\ IncomesWithinBound(out.db)
       /\ Commit(out.db)
       /\ resp' = Resp("CreateTask", t, req, out.result)
       /\ UNCHANGED now

UpdateTask(t, req) ==
    LET out == HandleUpdateTask(DB, t, req)
    IN /\ tasks[t].state = "stored"
       /\ IncomesWithinBound(out.db)
       /\ Commit(out.db)
       /\ resp' = Resp("UpdateTask", t, req, out.result)
       /\ UNCHANGED now

\* DELETE of a task by a doctor.
DeleteTask(t) ==
    LET out == Task_delete(DB, t)
    IN /\ tasks[t].state = "stored"
       /\ Commit(out.db)
       /\ resp' = Resp("DeleteTask", t, NoReq, out.result)
       /\ UNCHANGED now

UpdateSchedule(s, req) ==
    LET out == HandleUpdateSchedule(DB, s, req)
    IN /\ Commit(out.db)
       /\ resp' = Resp("UpdateSchedule", s, req, out.result)
       /\ UNCHANGED now

CreateDoctorTask(c, t, req) ==
    LET out == HandleCreateDoctorTask(DB, c, t, req)
    IN /\ NextId(doctorTasks, t)
       /\ IncomesWithinBound(out.db)
       /\ Commit(out.db)
       /\ resp' = Resp("CreateDoctorTask", t, req, out.result)
       /\ UNCHANGED now

UpdateDoctorTask(c, t, req) ==
    LET out == HandleUpdateDoctorTask(DB, c, t, req)
    IN /\ doctorTasks[t].state = "stored"
       /\ IncomesWithinBound(out.db)
       /\ Commit(out.db)
       /\ resp' = Resp("UpdateDoctorTask", t, req, out.result)
       /\ UNCHANGED now

\* ---------------------------------------------------------------------
\* Nurse work: tasks of two nurses over the days of their schedules
\* ---------------------------------------------------------------------
DoneInputs == {"true", "false"}
TaskPriceInputs == {Absent, MaxAmount}

AddTask ==
    \E t \in Tasks, s \in Schedules, n \in Nurses, day \in Times,
       done \in {"absent", "true"}, price \in TaskPriceInputs :
        CreateTask(t, [NoReq EXCEPT !.schedule = s, !.nurse = n, !.day = day,
                                    !.is_done = done, !.price = price])

MarkTask ==
    \E t \in Tasks, done \in DoneInputs, actor \in {Null} \cup Nurses :
        UpdateTask(t, [NoReq EXCEPT !.actor = actor, !.is_done = done])

MoveTask ==
    \E t \in Tasks, day \in Times :
        UpdateTask(t, [NoReq EXCEPT !.day = day])

ReassignTask ==
    \E t \in Tasks, s \in Schedules, n \in Nurses :
        UpdateTask(t, [NoReq EXCEPT !.schedule = s, !.nurse = n])

RemoveTask == \E t \in Tasks : DeleteTask(t)

\* Completion and un-marking of tasks that stay where they were created.
NextTask == AddTask \/ MarkTask

SpecTask == Init /\ [][NextTask]_vars

\* The periodic rollover of nurse incomes.
Rollover ==
    LET out == nurse_income_daily_rollover(DB)
    IN /\ \A n \in Nurses : out.nurseIncome[n].monthly_total <= MaxLedger
       /\ Commit(out)
       /\ resp' = Resp("Rollover", Null, NoReq, "ok")
       /\ UNCHANGED now

\* The assigned nurse completes a task.
CompleteTask ==
    \E t \in Tasks :
        UpdateTask(t, [NoReq EXCEPT !.actor = tasks[t].nurse,
                                    !.is_done = "true"])

\* Tasks that are completed, moved to another day, handed to the other
\* nurse's schedule, and deleted.
NextSalary ==
    \/ AddTask \/ CompleteTask \/ MoveTask \/ ReassignTask \/ RemoveTask

SpecSalary == Init /\ [][NextSalary]_vars

\* ---------------------------------------------------------------------
\* Doctor work: doctor tasks on one card
\* ---------------------------------------------------------------------
AddDoctorTask ==
    \E t \in DoctorTasks, actor \in Doctors, doc \in Doctors,
       svc \in ServiceIdInputs, done \in {"absent", "true"},
       price \in TaskPriceInputs :
        CreateDoctorTask(1, t, [NoReq EXCEPT !.actor = actor, !.doctor = doc,
                                             !.service = svc, !.is_done = done,
                                             !.price = price])

MarkDoctorTask ==
    \E t \in DoctorTasks, actor \in Doctors, done \in DoneInputs :
        UpdateDoctorTask(1, t, [NoReq EXCEPT !.actor = actor, !.is_done = done])

NextDoc == AddDoctorTask \/ MarkDoctorTask

SpecDoc == Init /\ [][NextDoc]_vars

\* ---------------------------------------------------------------------
\* Concurrent completions: the income increment of each request is a
\* transaction of its own, interleaved with the other worker's
\* ---------------------------------------------------------------------
\* The stored total of an income row.
LedgerTotal(d, ledger, who) ==
    IF ledger = "nurse" THEN d.nurseIncome[who].daily_total
    ELSE d.doctorIncome[who].monthly_total

\* An increment that takes the income row without locking it.
RowFree_unlocked(p, w) == TRUE

\* select_for_update(): the income row is taken once no other open
\* transaction holds it.
RowFree(p, w) ==
    \A v \in Workers \ {w} :
        ~(/\ p[v].pc \in {"locked", "written"}
          /\ p[v].ledger = p[w].ledger
          /\ p[v].who = p[w].who)

\* What the requests in flight will still add to an income row.
RECURSIVE PendingCredit(_, _, _, _)
PendingCredit(p, W, ledger, who) ==
    IF W = {} THEN 0
    ELSE LET w == CHOOSE v \in W : TRUE
         IN (IF p[w].pc \in {"saved", "locked"} /\ p[w].ledger = ledger
                /\ p[w].who = who
             THEN p[w].amount ELSE 0)
            + PendingCredit(p, W \ {w}, ledger, who)

\* The request has written its task row and run the receivers before the
\* income increment; the increment of amount is still to come.
StartIncrement(w, op, id, req, out, ledger, who) ==
    LET amount == LedgerTotal(out.db, ledger, who)
                  - LedgerTotal(DB, ledger, who)
    IN /\ procs[w].pc = "idle"
       /\ out.result = "ok"
       /\ LedgerTotal(DB, ledger, who)
            + PendingCredit(procs, Workers, ledger, who) + amount <= MaxLedger
       /\ Store([out.db EXCEPT !.nurseIncome = nurseIncome,
                               !.doctorIncome = doctorIncome])
       /\ procs' = [procs EXCEPT ![w] =
                      [Idle EXCEPT !.pc = "saved", !.op = op, !.id = id,
                                   !.req = req, !.ledger = ledger,
                                   !.who = who, !.amount = amount]]
       /\ UNCHANGED <<now, resp, cache, resetsToday>>

\* TaskViewSet.update with is_done true by the assigned nurse, up to the
\* income receiver.
BeginComplete(w, t) ==
    LET req == [NoReq EXCEPT !.actor = tasks[t].nurse, !.is_done = "true"]
    IN /\ tasks[t].state = "stored"
       /\ ~tasks[t].is_done
       /\ StartIncrement(w, "UpdateTask", t, req, HandleUpdateTask(DB, t, req),
                         "nurse", tasks[t].nurse)

\* DoctorTaskViewSet.create with is_done true, up to the income receiver.
BeginCreateDoctorTask(w, c, t, req) ==
    /\ NextId(doctorTasks, t)
    /\ req.is_done = "true"
    /\ StartIncrement(w, "CreateDoctorTask", t, req,
                      HandleCreateDoctorTask(DB, c, t, req),
                      "doctor", req.actor)

\* transaction.atomic(), select_for_update().get_or_create(): the row is
\* created when missing, locked, and its total read. The rows as they
\* were committed before the transaction are kept in snap.
LockIncome(w) ==
    LET me == procs[w]
    IN /\ me.pc = "saved"
       /\ RowFree(procs, w)
       /\ IF me.ledger = "nurse"
          THEN /\ nurseIncome' = [nurseIncome EXCEPT ![me.who].exists = TRUE]
               /\ UNCHANGED doctorIncome
          ELSE /\ doctorIncome' = [doctorIncome EXCEPT ![me.who].exists = TRUE]
               /\ UNCHANGED nurseIncome
       /\ procs' = [procs EXCEPT ![w].pc = "locked",
                                 ![w].seen = LedgerTotal(DB, me.ledger, me.who),
                                 ![w].snap = nurseIncome]
       /\ UNCHANGED <<cards, rooms, pets, payments, paymentDay, schedules,
                      tasks, nurses, dailySalary, doctorTasks, now, resp,
                      cache, resetsToday>>

\* total = total read + price; save(update_fields=[total]).
WriteIncome(w) ==
    LET me == procs[w]
    IN /\ me.pc = "locked"
       /\ IF me.ledger = "nurse"
          THEN /\ nurseIncome' = [nurseIncome EXCEPT
                                    ![me.who].daily_total = me.seen + me.amount]
               /\ UNCHANGED doctorIncome
          ELSE /\ doctorIncome' = [doctorIncome EXCEPT
                                    ![me.who].monthly_total
                                        = me.seen + me.amount]
               /\ UNCHANGED nurseIncome
       /\ procs' = [procs EXCEPT ![w].pc = "written"]
       /\ UNCHANGED <<cards, rooms, pets, payments, paymentDay, schedules,
                      tasks, nurses, dailySalary, doctorTasks, now, resp,
                      cache, resetsToday>>

\* The transaction commits, the lock is released and the response goes out.
FinishIncrement(w) ==
    LET me == procs[w]
    IN /\ me.pc = "written"
       /\ procs' = [procs EXCEPT ![w] = Idle]
       /\ resp' = Resp(me.op, me.id, me.req, "ok")
       /\ UNCHANGED <<cards, rooms, pets, payments, paymentDay, schedules,
                      tasks, nurses, dailySalary, nurseIncome, doctorTasks,
                      doctorIncome, now, cache, resetsToday>>

\* Tasks for today are opened on the schedules, not yet done.
OpenTask ==
    \E t \in Tasks, s \in Schedules, price \in TaskPriceInputs :
        /\ \A w \in Workers : procs[w].pc = "idle"
        /\ CreateTask(t, [NoReq EXCEPT !.schedule = s,
                                       !.nurse = schedules[s].assigned_nurse,
                                       !.day = now, !.price = price])

CompleteConcurrently == \E w \in Workers, t \in Tasks : BeginComplete(w, t)

CreateDoneConcurrently ==
    \E w \in Workers, t \in DoctorTasks, svc \in Services :
        BeginCreateDoctorTask(w, 1, t,
            [NoReq EXCEPT !.actor = CardDoctor(1), !.doctor = CardDoctor(1),
                          !.service = svc, !.is_done = "true"])

IncrementStep ==
    \E w \in Workers : LockIncome(w) \/ WriteIncome(w) \/ FinishIncrement(w)

NextRace ==
    \/ OpenTask \/ CompleteConcurrently \/ CreateDoneConcurrently
    \/ IncrementStep

SpecRace == Init /\ [][NextRace]_vars

\* ---------------------------------------------------------------------
\* The ward: two cards, one per pet, assigned rooms by concurrent requests
\* ---------------------------------------------------------------------
WardCards == {1, 2}

InitWard ==
    /\ cards = [c \in WardCards |-> NewCard(c)]
    /\ rooms = [r \in Rooms |-> NewRoom]
    /\ pets = Pets
    /\ payments = [c \in WardCards |-> NoPayment]
    /\ paymentDay = [t \in Dates |-> None]
    /\ schedules = [s \in Schedules |-> NewSchedule(s)]
    /\ tasks = [t \in Tasks |-> NewTask]
    /\ nurses = [n \in Nurses |-> [salary_per_day |-> 0, total_salary |-> 0]]
    /\ dailySalary = [n \in Nurses |-> [t \in Times |-> NoDailySalary]]
    /\ nurseIncome = [n \in Nurses |-> NoNurseIncome]
    /\ doctorTasks = [t \in DoctorTasks |-> NewDoctorTask]
    /\ doctorIncome = [n \in Doctors |-> NoDoctorIncome]
    /\ now = 0
    /\ resp = Resp("none", Null, NoReq, "ok")
    /\ cache = None
    /\ procs = [w \in Workers |-> Idle]
    /\ resetsToday = 0

\* serializer.is_valid() of a card update: the room named by the request
\* is loaded and checked; a rejected request is answered at once.
BeginAssign(w, c, req) ==
    LET verdict == MedicalCardSerializer_validate(DB, c, req)
    IN /\ procs[w].pc = "idle"
       /\ \A v \in Workers : procs[v].pc # "idle" => procs[v].id # c
       /\ IF verdict # "ok"
          THEN /\ resp' = Resp("UpdateCard", c, req, verdict)
               /\ UNCHANGED procs
          ELSE /\ procs' = [procs EXCEPT ![w] =
                    [Idle EXCEPT !.pc = "validated", !.op = "UpdateCard",
                                 !.id = c, !.req = req,
                                 !.room = IF req.room \in Rooms
                                          THEN rooms[req.room] ELSE NewRoom]]
               /\ UNCHANGED resp
       /\ UNCHANGED <<cards, rooms, pets, payments, paymentDay, schedules,
                      tasks, nurses, dailySalary, nurseIncome, doctorTasks,
                      doctorIncome, now, cache, resetsToday>>

\* serializer.save(): MedicalCardSerializer.update runs with the room
\* object that validation loaded.
ApplyAssign(w) ==
    LET me == procs[w]
        d0 == IF me.req.room \in Rooms
              THEN [DB EXCEPT !.rooms[me.req.room] = me.room] ELSE DB
        out == MedicalCardSerializer_update(d0, me.id, me.req)
    IN /\ me.pc = "validated"
       /\ Store(out.db)
       /\ procs' = [procs EXCEPT ![w] = Idle]
       /\ resp' = Resp("UpdateCard", me.id, me.req, out.result)
       /\ UNCHANGED <<now, cache, resetsToday>>

AssignConcurrently ==
    \E w \in Workers, c \in WardCards, r \in {Null} \cup Rooms :
        BeginAssign(w, c, [NoReq EXCEPT !.room = r, !.adm = now])

FinishAssign == \E w \in Workers : ApplyAssign(w)

NextWard == AssignConcurrently \/ FinishAssign

SpecWard == InitWard /\ [][NextWard]_vars

\* ---------------------------------------------------------------------
\* Income ledger: completed tasks are edited and deleted between rollovers
\* ---------------------------------------------------------------------
PriceEdits == 0..MaxAmount

\* A task is created already completed, on its nurse's schedule, today.
EarnTask ==
    \E t \in {1}, s \in Schedules :
        CreateTask(t, [NoReq EXCEPT !.schedule = s,
                                    !.nurse = schedules[s].assigned_nurse,
                                    !.day = now, !.is_done = "true",
                                    !.price = MaxAmount])

ReopenTask ==
    \E t \in Tasks : UpdateTask(t, [NoReq EXCEPT !.is_done = "false"])

RepriceTask ==
    \E t \in Tasks, price \in PriceEdits :
        UpdateTask(t, [NoReq EXCEPT !.price = price])

NextLedger ==
    \/ EarnTask \/ CompleteTask \/ ReopenTask \/ RepriceTask
    \/ MoveTask \/ ReassignTask \/ RemoveTask \/ Rollover

SpecLedger == Init /\ [][NextLedger]_vars

\* ---------------------------------------------------------------------
\* The daily rollover running beside task completions
\* ---------------------------------------------------------------------
\* The next income row of the queryset after nurse n, in key order.
NextRow(snap, n) ==
    LET rest == {m \in Nurses : m > n /\ snap[m].exists}
    IN IF rest = {} THEN Null
       ELSE CHOOSE m \in rest : \A k \in rest : m <= k

\* The income rows as a reader outside the open transactions sees them:
\* a row held by a transaction shows as it was before that transaction.
CommittedIncome ==
    [n \in Nurses |->
        LET holders == {v \in Workers : /\ procs[v].pc \in {"locked", "written"}
                                        /\ procs[v].ledger = "nurse"
                                        /\ procs[v].who = n}
        IN IF holders = {} THEN nurseIncome[n]
           ELSE procs[CHOOSE v \in holders : TRUE].snap[n]]

\* nurse_income_daily_rollover: NurseIncome.objects.all() is fetched.
BeginRollover(w) ==
    LET first == NextRow(CommittedIncome, 0)
    IN /\ procs[w].pc = "idle"
       /\ IF first = Null
          THEN /\ resp' = Resp("Rollover", Null, NoReq, "ok")
               /\ UNCHANGED procs
          ELSE /\ procs' = [procs EXCEPT ![w] =
                    [Idle EXCEPT !.pc = "rolling", !.op = "Rollover",
                                 !.ledger = "nurse", !.who = first,
                                 !.snap = CommittedIncome]]
               /\ UNCHANGED resp
       /\ UNCHANGED <<cards, rooms, pets, payments, paymentDay, schedules,
                      tasks, nurses, dailySalary, nurseIncome, doctorTasks,
                      doctorIncome, now, cache, resetsToday>>

\* One pass of the loop: the totals of the fetched object are folded and
\* written with save(update_fields=[monthly_total, daily_total,
\* last_reset]); the UPDATE waits for a transaction that holds the row.
RollWrite(w) ==
    LET me == procs[w]
        inc == me.snap[me.who]
        next == NextRow(me.snap, me.who)
    IN /\ me.pc = "rolling"
       /\ RowFree(procs, w)
       /\ nurseIncome' = [nurseIncome EXCEPT ![me.who] =
              [@ EXCEPT !.monthly_total = inc.monthly_total + inc.daily_total,
                        !.daily_total = 0,
                        !.last_reset = now]]
       /\ IF next = Null
          THEN /\ procs' = [procs EXCEPT ![w] = Idle]
               /\ resp' = Resp("Rollover", Null, NoReq, "ok")
          ELSE /\ procs' = [procs EXCEPT ![w].who = next]
               /\ UNCHANGED resp
       /\ UNCHANGED <<cards, rooms, pets, payments, paymentDay, schedules,
                      tasks, nurses, dailySalary, doctorTasks, doctorIncome,
                      now, cache, resetsToday>>

RolloverStep == \E w \in Workers : BeginRollover(w) \/ RollWrite(w)

NextRollover ==
    OpenTask \/ CompleteConcurrently \/ IncrementStep \/ RolloverStep

SpecRollover == Init /\ [][NextRollover]_vars

\* ---------------------------------------------------------------------
\* Room turnover: two cards of different pets, dated stays and the sweep
\* ---------------------------------------------------------------------
MoveWard ==
    \E c \in WardCards, r \in RoomInputs, adm \in {Absent, now},
       rel \in {Absent, now} :
        UpdateCard(c, [NoReq EXCEPT !.room = r, !.adm = adm, !.rel = rel])

\* A PATCH that carries none of the room fields.
TouchCard == \E c \in WardCards : UpdateCard(c, NoReq)

NextTurnover == MoveWard \/ TouchCard \/ Sweep \/ Tick

SpecTurnover == InitWard /\ [][NextTurnover]_vars

\* ---------------------------------------------------------------------
\* The daily reset of salary_per_day: the middleware on every request and
\* the scheduled job
\* ---------------------------------------------------------------------
\* Nurse.objects.update(salary_per_day=0).
reset_salary_per_day(d) ==
    [d EXCEPT !.nurses = [n \in Nurses |-> [@[n] EXCEPT !.salary_per_day = 0]]]

\* One more reset on the current day.
CountReset == resetsToday' = IF resetsToday = 0 THEN 1 ELSE 2

\* DailyNurseSalaryResetMiddleware.__call__: today and the cache entry
\* are read and compared; a request that finds today's date passes on.
BeginRequest(w) ==
    /\ procs[w].pc = "idle"
    /\ IF cache = now
       THEN /\ resp' = Resp("Request", Null, NoReq, "ok")
            /\ UNCHANGED procs
       ELSE /\ procs' = [procs EXCEPT ![w] =
                 [Idle EXCEPT !.pc = "stale", !.op = "Request", !.seen = now]]
            /\ UNCHANGED resp
    /\ UNCHANGED <<cards, rooms, pets, payments, paymentDay, schedules, tasks,
                   nurses, dailySalary, nurseIncome, doctorTasks,
                   doctorIncome, now, cache, resetsToday>>

\* The middleware's reset.
ResetInRequest(w) ==
    /\ procs[w].pc = "stale"
    /\ Store(reset_salary_per_day(DB))
    /\ CountReset
    /\ procs' = [procs EXCEPT ![w].pc = "reset"]
    /\ UNCHANGED <<now, resp, cache>>

\* cache.set(CACHE_KEY, str(today)), then the request goes on to its view.
MarkReset(w) ==
    /\ procs[w].pc = "reset"
    /\ cache' = procs[w].seen
    /\ procs' = [procs EXCEPT ![w] = Idle]
    /\ resp' = Resp("Request", Null, NoReq, "ok")
    /\ UNCHANGED <<cards, rooms, pets, payments, paymentDay, schedules, tasks,
                   nurses, dailySalary, nurseIncome, doctorTasks,
                   doctorIncome, now, resetsToday>>

\* The scheduled job reset_daily_nurse_salary.
ResetJob ==
    /\ Store(reset_salary_per_day(DB))
    /\ CountReset
    /\ resp' = Resp("ResetJob", Null, NoReq, "ok")
    /\ UNCHANGED <<now, cache, procs>>

Requests == \E w \in Workers : BeginRequest(w) \/ ResetInRequest(w) \/ MarkReset(w)

NextReset == Requests \/ ResetJob \/ EarnTask \/ Tick

SpecReset == Init /\ [][NextReset]_vars

\* ---------------------------------------------------------------------
\* Planning: tasks are created, moved and handed over while schedules
\* are edited
\* ---------------------------------------------------------------------
DayInputs == 0..(MaxTime + 1)

PlanTask ==
    \E t \in Tasks, s \in Schedules, n \in Nurses, day \in DayInputs :
        CreateTask(t, [NoReq EXCEPT !.schedule = s, !.nurse = n, !.day = day])

ReplanTask ==
    \E t \in Tasks, day \in DayInputs :
        UpdateTask(t, [NoReq EXCEPT !.day = day])

EditSchedule ==
    \E s \in Schedules :
        \/ \E n \in Nurses : UpdateSchedule(s, [NoReq EXCEPT !.nurse = n])
        \/ \E day \in Times :
                UpdateSchedule(s, [NoReq EXCEPT !.start_date = day])
        \/ \E day \in Times :
                UpdateSchedule(s, [NoReq EXCEPT !.end_date = day])

NextPlan == PlanTask \/ ReplanTask \/ EditSchedule

SpecPlan == Init /\ [][NextPlan]_vars

\* ---------------------------------------------------------------------
\* Settlement of a hospitalised card: status, selections, room, payment,
\* the sweep and the clock
\* ---------------------------------------------------------------------
BindRoom ==
    \E r \in {Null, 1}, rel \in {Absent, now} :
        UpdateCard(1, [NoReq EXCEPT !.room = r, !.adm = now, !.rel = rel])

NextSettle == EditCard \/ PayCard \/ BindRoom \/ Sweep \/ Tick

SpecSettle == Init /\ [][NextSettle]_vars

\* =====================================================================
\* Properties
\* =====================================================================
RECURSIVE SumTo(_, _)
SumTo(n, f) == IF n = 0 THEN 0 ELSE f[n] + SumTo(n - 1, f)

IsCardUpdate(r) == r.op = "UpdateCard"
PriceErrors == {"InvalidPrice", "PriceOutOfRange", "NotFound"}

\* C1: the stored total_fee of every card is the sum of the prices of its
\* selection rows (or, with no selection rows, of the base prices of the
\* services in its membership set) plus the prices of its medicines.
SelectionRowTotal(card) ==
    SumTo(NumServices, [s \in Services |->
        IF card.service_links[s] # None THEN card.service_links[s] ELSE 0])
MembershipTotal(card) ==
    SumTo(NumServices, [s \in Services |->
        IF s \in card.services THEN ServicePrice(s) ELSE 0])
MedicineTotal(card) ==
    SumTo(NumMedicines, [m \in Medicines |->
        IF m \in card.medicines THEN MedicinePrice(m) ELSE 0])
C1_TotalFeeIsSum ==
    \A c \in Cards :
        cards[c].total_fee =
            (IF \E s \in Services : cards[c].service_links[s] # None
             THEN SelectionRowTotal(cards[c])
             ELSE MembershipTotal(cards[c]))
            + MedicineTotal(cards[c])

\* A card with two priced rows, one above its base price, and a medicine.
C1_Witness ==
    /\ IsCardUpdate(resp) /\ resp.result = "ok"
    /\ cards[1].service_links[1] = 1
    /\ cards[1].service_links[2] = 3
    /\ cards[1].medicines = {1}
    /\ cards[1].total_fee = 5

\* C2: a task that has been completed once (its done_at is set) is never
\* credited again: no later update of it raises any nurse's daily_total.
C2_IncomeCreditedOncePerTask ==
    [][\A t \in Tasks :
        (resp'.op = "UpdateTask" /\ resp'.id = t
         /\ tasks[t].state = "stored" /\ tasks[t].done_at # None)
        => \A n \in Nurses :
              nurseIncome'[n].daily_total <= nurseIncome[n].daily_total]_vars

\* C3: a save that takes a payment from non-paid to paid adds the payment's
\* effective amount (its amount, or the card's total_fee when the amount is
\* zero) to today's PaymentDay row exactly once, creating the row at 0
\* first; a zero effective amount adds nothing.
EffectiveAmount(c, amount) == IF amount # 0 THEN amount ELSE cards[c].total_fee
C3_PaidTransitionCredited ==
    [][\A c \in Cards :
        (resp'.op = "SavePayment" /\ resp'.id = c
         /\ payments[c].status # "paid" /\ payments'[c].status = "paid")
        => LET eff == EffectiveAmount(c, resp'.req.amount)
           IN /\ \A t \in Times \ {now} : paymentDay'[t] = paymentDay[t]
              /\ IF eff = 0 THEN paymentDay'[now] = paymentDay[now]
                 ELSE paymentDay'[now] =
                        (IF paymentDay[now] = None THEN 0 ELSE paymentDay[now])
                        + eff]_vars

\* A pending payment with amount 0 for a card with a fee has just been
\* settled and today's row holds the card's fee.
C3_Witness ==
    /\ resp.op = "SavePayment" /\ resp.req.status = "paid"
    /\ resp.req.amount = 0
    /\ cards[1].total_fee > 0
    /\ payments[1].amount = cards[1].total_fee
    /\ paymentDay[now] = cards[1].total_fee

\* C4: saving a payment that is already paid, with status paid again,
\* leaves the card's status and closed_at and every PaymentDay row as they
\* were.
C4_ResaveLeavesCardAndLedger ==
    [][\A c \in Cards :
        (resp'.op = "SavePayment" /\ resp'.id = c
         /\ payments[c].status = "paid" /\ resp'.req.status = "paid")
        => /\ cards'[c].status = cards[c].status
           /\ cards'[c].closed_at = cards[c].closed_at
           /\ paymentDay' = paymentDay]_vars

\* C5: a room is occupied exactly when a pet is bound to it.
C5_OccupiedIffPet ==
    \A r \in Rooms : rooms[r].is_occupied <=> rooms[r].pet # Null

\* C6: no pet is bound to two rooms, and when a card whose pet is bound to
\* room r1 is newly assigned another room r2, r1 is freed and r2 is bound
\* to the pet.
NoPetInTwoRooms ==
    \A r1, r2 \in Rooms :
        (r1 # r2 /\ rooms[r1].pet # Null) => rooms[r1].pet # rooms[r2].pet
C6_RebindFreesOldRoom ==
    /\ []NoPetInTwoRooms
    /\ [][\A c \in Cards, r1, r2 \in Rooms :
            (IsCardUpdate(resp') /\ resp'.id = c /\ resp'.result = "ok"
             /\ resp'.req.room = r2 /\ cards[c].stationary_room # r2
             /\ r1 # r2 /\ rooms[r1].pet = cards'[c].pet)
            => /\ rooms'[r1].pet = Null /\ ~rooms'[r1].is_occupied
               /\ rooms'[r2].pet = cards'[c].pet /\ rooms'[r2].is_occupied]_vars

\* The card has just been moved to room 2; room 1, which held its pet, has
\* been released.
C6_Witness ==
    /\ IsCardUpdate(resp) /\ resp.result = "ok" /\ resp.req.room = 2
    /\ cards[1].stationary_room = 2
    /\ rooms[2].pet = cards[1].pet /\ rooms[2].is_occupied
    /\ rooms[1].pet = Null /\ ~rooms[1].is_occupied
    /\ rooms[1].admission_date # None /\ rooms[1].release_date # None

\* C7: every stored NurseDailySalary row of nurse n and day D counts the
\* tasks currently stored for n on D and those of them that are done, and
\* its salary is rate_per_task times the completed count.
C7_DailySalaryMatchesTasks ==
    \A n \in Nurses, day \in Times :
        dailySalary[n][day].exists =>
            LET on_day == {t \in Tasks : tasks[t].state = "stored"
                                         /\ tasks[t].nurse = n
                                         /\ tasks[t].day = day}
                done == {t \in on_day : tasks[t].is_done}
            IN /\ dailySalary[n][day].total_tasks = Cardinality(on_day)
               /\ dailySalary[n][day].completed_tasks = Cardinality(done)
               /\ dailySalary[n][day].salary
                    = rate_per_task(n) * Cardinality(done)

\* C8: an accepted update that takes a doctor task from not done to done
\* for the first time, and an accepted creation of a task that is already
\* done, raise the monthly_total of the task's doctor by the task's price.
C8_DoctorIncomeCreditedOnCompletion ==
    [][\A t \in DoctorTasks :
        (resp'.id = t /\ resp'.result = "ok" /\ doctorTasks'[t].is_done
         /\ \/ resp'.op = "UpdateDoctorTask" /\ ~doctorTasks[t].is_done
               /\ doctorTasks[t].done_at = None
            \/ resp'.op = "CreateDoctorTask")
        => doctorIncome'[doctorTasks'[t].doctor].monthly_total
             = doctorIncome[doctorTasks'[t].doctor].monthly_total
               + doctorTasks'[t].price]_vars

\* C9: a priced selection is accepted exactly when every pair names a known
\* service and a price equal to the base price (no price_up_to) or within
\* [base price, price_up_to]; the rejection names the kind of the fault.
FixedPrice(s) == PriceUpTo(s) = None
PairAcceptable(item) ==
    /\ item.service_id \in Services
    /\ \/ FixedPrice(item.service_id)
          /\ item.price = ServicePrice(item.service_id)
       \/ ~FixedPrice(item.service_id)
          /\ ServicePrice(item.service_id) <= item.price
          /\ item.price <= PriceUpTo(item.service_id)
PairFault(item) ==
    IF item.service_id \notin Services THEN "NotFound"
    ELSE IF FixedPrice(item.service_id) THEN "InvalidPrice"
    ELSE "PriceOutOfRange"
C9_PricedSelectionContract ==
    (IsCardUpdate(resp) /\ resp.req.has_priced) =>
        LET sels == resp.req.priced
            bad == {i \in 1..Len(sels) : ~PairAcceptable(sels[i])}
        IN /\ resp.result = "ok" <=> bad = {}
           /\ resp.result # "ok" =>
                \E i \in bad : resp.result = PairFault(sels[i])
           /\ Len(sels) = 1 /\ bad # {} => resp.result = PairFault(sels[1])
           /\ resp.result = "ok" =>
                \A i \in 1..Len(sels) :
                    cards[resp.id].service_links[sels[i].service_id] # None

\* The upper bound of a ranged service has just been accepted.
C9_Witness ==
    /\ IsCardUpdate(resp) /\ resp.req.has_priced /\ resp.result = "ok"
    /\ \E i \in 1..Len(resp.req.priced) :
          resp.req.priced[i] = [service_id |-> 2, price |-> PriceUpTo(2)]
    /\ cards[1].service_links[2] = PriceUpTo(2)

\* C10: a rejected priced selection has changed nothing on the card.
C10_RejectedSelectionChangesNothing ==
    [][(IsCardUpdate(resp') /\ resp'.req.has_priced
        /\ resp'.result \in PriceErrors)
       => cards' = cards]_vars

\* C11: a settlement (non-paid to paid) of a payment with amount zero
\* stores the card's total_fee as the payment's amount, leaves total_fee
\* as it was, makes the card paid with closed_at set, and leaves a room
\* that holds the card's pet through the card occupied by that pet.
C11_ZeroAmountSettlement ==
    [][\A c \in Cards :
        (resp'.op = "SavePayment" /\ resp'.id = c /\ resp'.req.amount = 0
         /\ payments[c].status # "paid" /\ payments'[c].status = "paid")
        => /\ payments'[c].amount = cards[c].total_fee
           /\ cards'[c].total_fee = cards[c].total_fee
           /\ cards'[c].status = "paid" /\ cards'[c].closed_at # None
           /\ \A r \in Rooms :
                (cards[c].stationary_room = r /\ rooms[r].pet = cards[c].pet)
                => rooms'[r].pet = cards'[c].pet /\ rooms'[r].is_occupied]_vars

\* A card with a fee and a room has just been settled with amount zero.
C11_Witness ==
    /\ resp.op = "SavePayment" /\ resp.req.status = "paid"
    /\ resp.req.amount = 0
    /\ cards[1].total_fee > 0 /\ payments[1].amount = cards[1].total_fee
    /\ paymentDay[now] = cards[1].total_fee
    /\ cards[1].status = "paid" /\ cards[1].closed_at = now
    /\ cards[1].stationary_room = 1
    /\ rooms[1].pet = cards[1].pet /\ rooms[1].is_occupied

\* C12: closed_at of a card is set exactly when its status is paid, and it
\* keeps its value over every step in which the card stays paid.
ClosedIffPaid ==
    \A c \in Cards : cards[c].closed_at # None <=> cards[c].status = "paid"
C12_ClosedAtFollowsStatus ==
    /\ []ClosedIffPaid
    /\ [][\A c \in Cards :
            (cards[c].status = "paid" /\ cards'[c].status = "paid")
            => cards'[c].closed_at = cards[c].closed_at]_vars

\* A card closed on day 0 has been saved again, still paid, on a later day.
C12_Witness ==
    /\ IsCardUpdate(resp) /\ resp.result = "ok" /\ resp.req.status = "paid"
    /\ now > 0
    /\ cards[1].status = "paid" /\ cards[1].closed_at = 0

\* C13: a card that is paid stays paid over every step.
C13_PaidIsTerminal ==
    [][\A c \in Cards :
        cards[c].status = "paid" => cards'[c].status = "paid"]_vars

\* C14: once a task is done it stays done: no accepted task update takes
\* is_done from true back to false.
C14_DoneIsTerminal ==
    [][\A t \in Tasks :
          (/\ resp'.op = "UpdateTask"
           /\ resp'.id = t
           /\ resp'.result = "ok"
           /\ tasks[t].is_done) => tasks'[t].is_done]_vars

\* The request of the last response describes a task whose nurse is the
\* schedule's assigned nurse and whose day lies in the schedule's range.
TaskFitsSchedule(row) ==
    /\ schedules[row.schedule].assigned_nurse = row.nurse
    /\ schedules[row.schedule].start_date <= row.day
    /\ row.day <= schedules[row.schedule].end_date

C16_TasksFitTheirSchedule ==
    \A t \in Tasks :
        tasks[t].state = "stored" => TaskFitsSchedule(tasks[t])

\* The pet a card update leaves on the card.
PetAfter(c, req) == IF req.pet # Absent THEN req.pet ELSE cards[c].pet

\* A card update that names a room other than the card's current room.
NewlyBinds(c, req) ==
    /\ req.room \in Rooms
    /\ req.room # cards[c].stationary_room

\* C17: an assignment whose release date is earlier than its admission
\* date, both given in the request, is not an error: the room is bound to
\* the card's pet and the room's release_date is null afterwards.
C17_EarlyReleaseIsCleared ==
    [][\A c \in Cards :
          (/\ IsCardUpdate(resp') /\ resp'.id = c
           /\ resp'.req.room \in Rooms
           /\ ~(NewlyBinds(c, resp'.req) /\ rooms[resp'.req.room].is_occupied)
           /\ Given(resp'.req.adm)
           /\ Given(resp'.req.rel)
           /\ resp'.req.rel < resp'.req.adm)
          => /\ resp'.result = "ok"
             /\ cards'[c].stationary_room = resp'.req.room
             /\ rooms'[resp'.req.room].pet = cards[c].pet
             /\ rooms'[resp'.req.room].release_date = None]_vars

\* C18: assigning a room that is already occupied by the card's own pet
\* (bound through room management) succeeds without RoomOccupied and the
\* room stays occupied and bound to that pet.
C18_SamePetReassignmentIsIdempotent ==
    [][\A c \in Cards :
          (/\ IsCardUpdate(resp') /\ resp'.id = c
           /\ NewlyBinds(c, resp'.req)
           /\ resp'.req.adm # Absent
           /\ resp'.req.pet = Absent
           /\ rooms[resp'.req.room].is_occupied
           /\ rooms[resp'.req.room].pet = cards[c].pet)
          => /\ resp'.result = "ok"
             /\ rooms'[resp'.req.room].is_occupied
             /\ rooms'[resp'.req.room].pet = cards[c].pet]_vars

\* C19: an assignment that would newly bind a room is rejected, leaving
\* every room and the card as they were, with RoomOccupied when the room
\* is occupied by another pet and with AdmissionDateRequired when no
\* admission date comes with the request.
C19_NewBindingRejected ==
    [][\A c \in Cards :
          (/\ IsCardUpdate(resp') /\ resp'.id = c
           /\ NewlyBinds(c, resp'.req)
           /\ resp'.result # "NotFound")
          => LET r == resp'.req.room
                 taken == /\ rooms[r].is_occupied
                          /\ rooms[r].pet \in Pets
                          /\ rooms[r].pet # PetAfter(c, resp'.req)
             IN /\ taken
                   => /\ resp'.result = "RoomOccupied"
                      /\ UNCHANGED <<cards, rooms>>
                /\ (~rooms[r].is_occupied /\ resp'.req.adm = Absent)
                   => /\ resp'.result = "AdmissionDateRequired"
                      /\ UNCHANGED <<cards, rooms>>
                /\ (taken \/ resp'.req.adm = Absent)
                   => /\ resp'.result
                            \in {"RoomOccupied", "AdmissionDateRequired"}
                      /\ UNCHANGED <<cards, rooms>>]_vars

C19_Witness ==
    /\ resp.op = "UpdateCard"
    /\ resp.result = "RoomOccupied"
    /\ resp.req.room \in Rooms
    /\ resp.req.adm # Absent
    /\ rooms[resp.req.room].is_occupied
    /\ rooms[resp.req.room].pet \in Pets
    /\ rooms[resp.req.room].pet # cards[resp.id].pet
    /\ cards[resp.id].stationary_room # resp.req.room

C21_RecomputeIsIdempotent ==
    [][\A c \in Cards :
          (resp'.op = "RecomputeTotal" /\ resp'.id = c)
          => LET once == update_total_fee(DB, c)
                 twice == update_total_fee(once, c)
             IN /\ cards' = once.cards
                /\ twice = once
                /\ cards' = [cards EXCEPT
                                ![c].total_fee = cards'[c].total_fee]
                /\ UNCHANGED <<rooms, pets, payments, paymentDay, schedules,
                               tasks, nurses, dailySalary, nurseIncome,
                               doctorTasks, doctorIncome>>]_vars

C21_Witness ==
    /\ resp.op = "RecomputeTotal"
    /\ cards[resp.id].total_fee > 0
    /\ cards[resp.id].status = "paid"
    /\ cards[resp.id].closed_at < now
    /\ LinkedServices(cards[resp.id]) # {}
    /\ cards[resp.id].medicines # {}

\* The number of days a listing request asks for, clamped to 1..MaxDays.
DaysAsked(req) ==
    IF req.days_given # "int" THEN DefaultDays
    ELSE IF req.days < 1 THEN 1
    ELSE IF req.days > MaxDays THEN MaxDays
    ELSE req.days

\* C22: the payment-days listing for days=N (N clamped) returns exactly N
\* rows, one per consecutive date ending today, in ascending order; a
\* missing row is created with price 0 and the price of an existing row
\* is never changed, by the listing or by the daily job, which creates
\* today's row only when it is absent.
C22_ListingFillsDays ==
    [][/\ resp'.op = "ListPaymentDays"
          => LET n == DaysAsked(resp'.req)
             IN /\ Len(resp'.rows) = n
                /\ \A i \in 1..n :
                      /\ resp'.rows[i].date = now - n + i
                      /\ resp'.rows[i].price
                            = paymentDay'[resp'.rows[i].date]
                /\ \A t \in Dates :
                      paymentDay'[t] =
                          IF paymentDay[t] # None THEN paymentDay[t]
                          ELSE IF now - n < t /\ t <= now THEN 0
                          ELSE None
       /\ resp'.op = "EnsurePaymentDay"
          => \A t \in Dates :
                paymentDay'[t] =
                    IF t = now /\ paymentDay[t] = None THEN 0
                    ELSE paymentDay[t]]_vars

C22_Witness ==
    /\ resp.op = "ListPaymentDays"
    /\ Len(resp.rows) = MaxDays
    /\ resp.rows[MaxDays].price > 0
    /\ resp.rows[MaxDays - 1].price > 0
    /\ resp.rows[1].price = 0

\* The prices of the completed tasks of nurse n, and of doctor n.
EarnedByNurse(n) ==
    SumOver({t \in Tasks : tasks[t].state = "stored" /\ tasks[t].is_done
                           /\ tasks[t].nurse = n},
            [t \in Tasks |-> tasks[t].price])

EarnedByDoctor(n) ==
    SumOver({t \in DoctorTasks : doctorTasks[t].state = "stored"
                                 /\ doctorTasks[t].is_done
                                 /\ doctorTasks[t].doctor = n},
            [t \in DoctorTasks |-> doctorTasks[t].price])

C24_RoomNeverDoubleBound ==
    \A c1, c2 \in DOMAIN cards :
        (/\ c1 # c2
         /\ cards[c1].stationary_room # Null
         /\ cards[c1].stationary_room = cards[c2].stationary_room)
        => cards[c1].pet = cards[c2].pet

\* C25: the reset of every nurse's salary_per_day fires at most once per
\* calendar day, whatever the number of requests that day, concurrent
\* ones and repeated runs of the scheduled reset job included.
C25_ResetAtMostOncePerDay == resetsToday <= 1

RoomIsDue(r) ==
    /\ rooms[r].pet # Null
    /\ rooms[r].release_date # None
    /\ rooms[r].release_date <= now

\* C26: a run of the sweep unbinds every room that has a pet bound and a
\* release_date that is not later than now, and leaves every other room
\* as it was; with the sweep run again and again, every such room is
\* eventually freed (unless a card update moves its release_date past
\* now before the sweep comes).
C26_SweepFreesDueRooms ==
    /\ [][resp'.op = "Sweep" =>
            \A r \in Rooms :
                IF RoomIsDue(r)
                THEN rooms'[r].pet = Null /\ ~rooms'[r].is_occupied
                ELSE rooms'[r] = rooms[r]]_vars
    /\ \A r \in Rooms :
          RoomIsDue(r) ~> (rooms[r].pet = Null \/ rooms[r].release_date = None
                           \/ rooms[r].release_date > now)

C26_Witness ==
    /\ resp.op = "Sweep"
    /\ \E r \in Rooms, c \in Cards :
          /\ cards[c].stationary_room = r
          /\ rooms[r].pet = Null
          /\ rooms[r].release_date # None
          /\ rooms[r].release_date <= now

\* C27: a card update that changes or clears the card's room never
\* unbinds a room that is bound to a pet other than the card's pet (the
\* card's previous room may have been freed by the sweep and bound to
\* another pet since).
C27_OtherPetsRoomKept ==
    [][\A c \in DOMAIN cards :
          IsCardUpdate(resp') /\ resp'.id = c /\ resp'.result = "ok" =>
              \A r \in Rooms :
                  rooms[r].pet \notin {Null, cards[c].pet, cards'[c].pet} =>
                      rooms'[r].pet = rooms[r].pet]_vars

\* C28: a card update that changes none of the card's stationary_room,
\* room_admission_date and room_release_date leaves the pet, is_occupied,
\* admission_date and release_date of every room unchanged; a room freed
\* by the sweep stays free until a new assignment.
C28_UnrelatedUpdateKeepsRooms ==
    [][\A c \in DOMAIN cards :
          /\ IsCardUpdate(resp') /\ resp'.id = c /\ resp'.result = "ok"
          /\ cards'[c].stationary_room = cards[c].stationary_room
          /\ cards'[c].room_admission_date = cards[c].room_admission_date
          /\ cards'[c].room_release_date = cards[c].room_release_date
          => rooms' = rooms]_vars

\* C29: when a card update binds the card's pet to a free room and
\* neither the request nor the card carries a release date, the room's
\* release_date is null afterwards and its admission_date is the card's
\* (or now): the dates of the room's previous occupancy are not kept.
C29_FreshStayHasNoReleaseDate ==
    [][\A c \in DOMAIN cards, r \in Rooms :
          /\ IsCardUpdate(resp') /\ resp'.id = c /\ resp'.result = "ok"
          /\ resp'.req.rel = Absent
          /\ cards'[c].room_release_date = None
          /\ rooms[r].pet = Null /\ ~rooms[r].is_occupied
          /\ rooms'[r].pet = cards'[c].pet
          => /\ rooms'[r].release_date = None
             /\ rooms'[r].admission_date
                    \in {cards'[c].room_admission_date, now}]_vars

\* C30: the rollover conserves income: for every nurse, daily_total plus
\* monthly_total after the rollover is what it was before plus the
\* credits made in between, in every interleaving with a completion that
\* increments the row; and daily_total is zero right after the rollover
\* has written the row.
C30_RolloverConservesIncome ==
    /\ [][\A w \in Workers :
            procs[w].pc = "rolling" /\ procs'[w] # procs[w] =>
                nurseIncome'[procs[w].who].daily_total = 0]_vars
    /\ []((\A w \in Workers : procs[w].pc = "idle") =>
            \A n \in Nurses :
                nurseIncome[n].daily_total + nurseIncome[n].monthly_total
                    = EarnedByNurse(n))

====
